---- MODULE Spec2Model ----
(***************************************************************************)
(* A model of wchargin/rust-tensorboard-writer: the event-file Writer      *)
(* (src/src/writer.rs), the SummaryBuilder (src/src/summary.rs) and the    *)
(* process-wide counter behind event file names.                           *)
(*                                                                         *)
(* Bytes are integers 0..255, byte strings are sequences of bytes, and a   *)
(* u32 is kept as the sequence of its 32 bits, least significant first.    *)
(***************************************************************************)
EXTENDS Integers, Sequences, FiniteSets, TLC

VARIABLES
    \* the Writer
    sink,        \* Writer.writer: the bytes the wrapped sink holds
    sinkCap,     \* how many bytes the wrapped sink accepts before write_all fails
    written,     \* history: the data of every record a successful call handed over
    ioFailed,    \* history: some call ended in an I/O error of the sink
    ncalls,      \* history: the number of Writer calls made
    last,        \* history: the last call, its arguments, result and the sink before it
    \* the SummaryBuilder
    summary,     \* SummaryBuilder.summary.value
    bargs,       \* the builder call at hand and its arguments
    bpc,         \* "ready" before the call, "done" after it, "panicked" when it panicked
    build,       \* the build: whether cfg(debug) and cfg(debug_assertions) are set
    bcalls,      \* history: the builder calls that returned, in order, with their arguments
    built,       \* what build() returned, once it was called
    \* event file names
    GLOBAL_UID,  \* the process-wide counter
    pc,          \* where each thread stands in event_file_name
    local,       \* each thread's locals: now, hostname, pid, uid
    names        \* history: the names returned so far, in order

wvars == <<sink, sinkCap, written, ioFailed, ncalls, last>>

bvars == <<summary, bargs, bpc, build, bcalls, built>>

uvars == <<GLOBAL_UID, pc, local, names>>

vars == <<sink, sinkCap, written, ioFailed, ncalls, last, summary, bargs, bpc, build,
          GLOBAL_UID, pc, local, names>>

(***************************************************************************)
(* Bounds of the model.                                                    *)
(***************************************************************************)
\* the number of Writer calls in one run
MaxCalls == 3

\* the longest slice of samples passed to histogram
MaxSamples == 3

\* the largest number of bins passed to histogram
MaxBins == 3

\* the number of event_file_name calls each thread makes
CallsPerThread == 2

\* the most strings passed to text_ndarray
MaxTexts == 2

\* the most dimensions of a shape passed to text_ndarray
MaxRank == 2

\* the bits of usize and of i64 in the shape check
WordBits == 4

\* the most calls made on one SummaryBuilder before build()
MaxBuilderCalls == 3

(***************************************************************************)
(* Bits and bytes.                                                         *)
(***************************************************************************)
Pow2(n) == 2 ^ n

\* the 32 bits of the little-endian u32 held in four bytes
U32Bits(bytes) ==
    SubSeq([i \in 1..32 |-> (bytes[((i - 1) \div 8) + 1] \div Pow2((i - 1) % 8)) % 2],
           1, 32)

Xor32(a, b) == SubSeq([i \in 1..32 |-> (a[i] + b[i]) % 2], 1, 32)

Shr32(a, n) == SubSeq([i \in 1..32 |-> IF i + n <= 32 THEN a[i + n] ELSE 0], 1, 32)

\* byte k (0 the lowest) of a u32
ByteOf(a, k) ==
    a[8 * k + 1] + 2 * a[8 * k + 2] + 4 * a[8 * k + 3] + 8 * a[8 * k + 4]
    + 16 * a[8 * k + 5] + 32 * a[8 * k + 6] + 64 * a[8 * k + 7] + 128 * a[8 * k + 8]

U32Bytes(a) == <<ByteOf(a, 0), ByteOf(a, 1), ByteOf(a, 2), ByteOf(a, 3)>>

AllOnes32 == SubSeq([i \in 1..32 |-> 1], 1, 32)

\* n < 2^31 as the eight little-endian bytes of a u64
LE64(n) ==
    <<n % 256, (n \div 256) % 256, (n \div 65536) % 256, (n \div 16777216) % 256,
      0, 0, 0, 0>>

\* the u64 held in eight little-endian bytes; -1 when it is 2^31 or more
FromLE64(b) ==
    IF b[5] = 0 /\ b[6] = 0 /\ b[7] = 0 /\ b[8] = 0 /\ b[4] < 128
    THEN b[1] + 256 * b[2] + 65536 * b[3] + 16777216 * b[4]
    ELSE -1

(***************************************************************************)
(* CRC-32C (Castagnoli), reflected, and the masked checksum of a record.   *)
(***************************************************************************)
\* the reflected Castagnoli polynomial 0x82F63B78
CastagnoliPoly == U32Bits(<<120, 59, 246, 130>>)

RECURSIVE CrcShift(_, _)
CrcShift(c, n) ==
    IF n = 0 THEN c
    ELSE CrcShift(IF c[1] = 1 THEN Xor32(Shr32(c, 1), CastagnoliPoly)
                  ELSE Shr32(c, 1), n - 1)

\* entry b + 1 is the table's entry for the byte b
CrcTable == SubSeq([k \in 1..256 |-> CrcShift(U32Bits(<<k - 1, 0, 0, 0>>), 8)], 1, 256)

RECURSIVE CrcUpdate(_, _, _)
CrcUpdate(crc, data, i) ==
    IF i > Len(data) THEN crc
    ELSE LET next == Xor32(CrcTable[ByteOf(Xor32(crc, U32Bits(<<data[i], 0, 0, 0>>)), 0) + 1],
                           Shr32(crc, 8))
         IN  IF Len(next) = 32 THEN CrcUpdate(next, data, i + 1) ELSE next

Crc32c(data) == Xor32(CrcUpdate(AllOnes32, data, 1), AllOnes32)

\* ((c >> 15) | (c << 17)) + 0xa282ead8, modulo 2^32, as four little-endian bytes
MaskedCrc(data) ==
    LET c   == Crc32c(data)
        rot == SubSeq([i \in 1..32 |-> c[((i - 1 + 15) % 32) + 1]], 1, 32)
        lo  == ByteOf(rot, 0) + 256 * ByteOf(rot, 1) + 60120
        hi  == ByteOf(rot, 2) + 256 * ByteOf(rot, 3) + 41602 + (lo \div 65536)
    IN  <<lo % 256, (lo \div 256) % 256, hi % 256, (hi \div 256) % 256>>

(***************************************************************************)
(* TFRecord framing.                                                       *)
(***************************************************************************)
\* TfRecord::from_data
TfRecord_from_data(data) ==
    [length     |-> Len(data),
     length_crc |-> MaskedCrc(LE64(Len(data))),
     data       |-> data,
     data_crc   |-> MaskedCrc(data)]

\* the bytes TfRecord::write hands to the sink
TfRecord_bytes(record) ==
    LE64(record.length) \o record.length_crc \o record.data \o record.data_crc

\* the sink after write_all of bytes: what fits is kept, the rest is refused
SinkAppend(old, cap, bytes) ==
    IF Len(old) + Len(bytes) <= cap THEN old \o bytes
    ELSE old \o SubSeq(bytes, 1, cap - Len(old))

SinkAccepts(old, cap, bytes) == Len(old) + Len(bytes) <= cap

\* reading the records back: the data of each record of a well-formed stream,
\* or <<"bad">> appended where a record is truncated or fails a checksum
RECURSIVE ReadRecords(_, _)
ReadRecords(bytes, pos) ==
    IF pos > Len(bytes) THEN <<>>
    ELSE IF pos + 11 > Len(bytes) THEN << <<"bad">> >>
    ELSE LET lenBytes == SubSeq(bytes, pos, pos + 7)
             n        == FromLE64(lenBytes)
         IN  IF SubSeq(bytes, pos + 8, pos + 11) # MaskedCrc(lenBytes) \/ n < 0
             THEN << <<"bad">> >>
             ELSE IF pos + 12 + n + 3 > Len(bytes) THEN << <<"bad">> >>
             ELSE LET data == SubSeq(bytes, pos + 12, pos + 11 + n)
                  IN  IF SubSeq(bytes, pos + 12 + n, pos + 15 + n) # MaskedCrc(data)
                      THEN << <<"bad">> >>
                      ELSE << data >> \o ReadRecords(bytes, pos + 16 + n)

(***************************************************************************)
(* The message encoder (protocol buffers wire format) for the messages the *)
(* Writer builds: Event, SourceMetadata, Summary, Summary.Value.           *)
(***************************************************************************)
\* base-128 varint of n >= 0
RECURSIVE Varint(_)
Varint(n) == IF n < 128 THEN <<n>> ELSE <<128 + (n % 128)>> \o Varint(n \div 128)

\* an i64 as a varint: a negative value is ten bytes (two's complement in 64 bits)
RECURSIVE VarintNeg(_, _)
VarintNeg(n, k) ==
    IF k = 0 THEN <<1>> ELSE <<128 + (n % 128)>> \o VarintNeg(n \div 128, k - 1)

VarintI64(n) == IF n >= 0 THEN Varint(n) ELSE VarintNeg(n, 9)

\* floor(log2 n) for n >= 1
RECURSIVE Log2(_)
Log2(n) == IF n < 2 THEN 0 ELSE 1 + Log2(n \div 2)

\* the IEEE-754 binary64 of the integer 0 <= n < 2^20, little-endian
F64Bytes(n) ==
    IF n = 0 THEN <<0, 0, 0, 0, 0, 0, 0, 0>>
    ELSE LET e  == Log2(n)
             hi == (1023 + e) * Pow2(20) + (n - Pow2(e)) * Pow2(20 - e)
         IN  <<0, 0, 0, 0, hi % 256, (hi \div 256) % 256, (hi \div 65536) % 256,
               (hi \div 16777216) % 256>>

\* the IEEE-754 binary32 of the integer 0 <= n < 2^23, little-endian
F32Bytes(n) ==
    IF n = 0 THEN <<0, 0, 0, 0>>
    ELSE LET e == Log2(n)
             w == (127 + e) * Pow2(23) + (n - Pow2(e)) * Pow2(23 - e)
         IN  <<w % 256, (w \div 256) % 256, (w \div 65536) % 256,
               (w \div 16777216) % 256>>

\* a length-delimited field: key, length, payload
LenDelim(field, payload) == Varint(8 * field + 2) \o Varint(Len(payload)) \o payload

\* Summary.Value: tag = 1, simple_value = 2 (fixed32)
Encode_Value(v) ==
    (IF v.tag # <<>> THEN LenDelim(1, v.tag) ELSE <<>>)
    \o (IF v.value[1] = "SimpleValue" THEN <<21>> \o F32Bytes(v.value[2]) ELSE <<>>)

\* Summary: repeated Value value = 1
RECURSIVE Encode_Summary(_)
Encode_Summary(s) ==
    IF s = <<>> THEN <<>>
    ELSE LenDelim(1, Encode_Value(Head(s))) \o Encode_Summary(Tail(s))

\* Event: wall_time = 1 (double), step = 2 (int64), oneof what { file_version = 3,
\* summary = 5 }, source_metadata = 10 { writer = 1 }; fields in tag order,
\* scalar fields left out at their default
Encode_Event(e) ==
    (IF e.wall_time # 0 THEN <<9>> \o F64Bytes(e.wall_time) ELSE <<>>)
    \o (IF e.step # 0 THEN <<16>> \o VarintI64(e.step) ELSE <<>>)
    \o (CASE e.what[1] = "FileVersion" -> LenDelim(3, e.what[2])
          [] e.what[1] = "Summary" -> LenDelim(5, Encode_Summary(e.what[2]))
          [] OTHER -> <<>>)
    \o (IF e.source_metadata[1] = "Some"
        THEN LenDelim(10, IF e.source_metadata[2] # <<>>
                          THEN LenDelim(1, e.source_metadata[2]) ELSE <<>>)
        ELSE <<>>)

\* the wire decoder: the fields of a message as <<number, wire type, payload>>,
\* with <<0, 0, <<>>>> where the bytes are malformed
RECURSIVE ReadVarint(_, _)
ReadVarint(bytes, pos) ==
    IF pos > Len(bytes) THEN [val |-> -1, next |-> pos]
    ELSE IF bytes[pos] < 128 THEN [val |-> bytes[pos], next |-> pos + 1]
    ELSE LET r == ReadVarint(bytes, pos + 1)
         IN  [val  |-> IF r.val < 0 \/ r.val >= 16777216 THEN -1
                       ELSE (bytes[pos] - 128) + 128 * r.val,
              next |-> r.next]

RECURSIVE SkipVarint(_, _)
SkipVarint(bytes, pos) ==
    IF pos > Len(bytes) THEN pos
    ELSE IF bytes[pos] < 128 THEN pos + 1 ELSE SkipVarint(bytes, pos + 1)

RECURSIVE DecodeFields(_, _)
DecodeFields(bytes, pos) ==
    IF pos > Len(bytes) THEN <<>>
    ELSE LET key  == ReadVarint(bytes, pos)
             num  == key.val \div 8
             wire == key.val % 8
         IN  IF key.val < 0 THEN << <<0, 0, <<>> >> >>
             ELSE IF wire = 0
             THEN LET stop == SkipVarint(bytes, key.next)
                  IN  << <<num, 0, SubSeq(bytes, key.next, stop - 1)>> >>
                      \o DecodeFields(bytes, stop)
             ELSE IF wire = 1 /\ key.next + 7 <= Len(bytes)
             THEN << <<num, 1, SubSeq(bytes, key.next, key.next + 7)>> >>
                  \o DecodeFields(bytes, key.next + 8)
             ELSE IF wire = 5 /\ key.next + 3 <= Len(bytes)
             THEN << <<num, 5, SubSeq(bytes, key.next, key.next + 3)>> >>
                  \o DecodeFields(bytes, key.next + 4)
             ELSE IF wire = 2
             THEN LET n == ReadVarint(bytes, key.next)
                  IN  IF n.val < 0 \/ n.next + n.val - 1 > Len(bytes)
                      THEN << <<0, 0, <<>> >> >>
                      ELSE << <<num, 2, SubSeq(bytes, n.next, n.next + n.val - 1)>> >>
                           \o DecodeFields(bytes, n.next + n.val)
             ELSE << <<0, 0, <<>> >> >>

(***************************************************************************)
(* The Writer (src/src/writer.rs).  A SystemTime is the whole number of    *)
(* seconds from the Unix epoch, negative before it.                        *)
(***************************************************************************)
\* "brain.Event:2"
FILE_VERSION == <<98, 114, 97, 105, 110, 46, 69, 118, 101, 110, 116, 58, 50>>

\* "wchargin/rust-tensorboard-writer"
WRITER ==
    <<119, 99, 104, 97, 114, 103, 105, 110, 47, 114, 117, 115, 116, 45, 116, 101,
      110, 115, 111, 114, 98, 111, 97, 114, 100, 45, 119, 114, 105, 116, 101, 114>>

\* pb::Event::default()
Event_default ==
    [wall_time |-> 0, step |-> 0, what |-> <<"None">>, source_metadata |-> <<"None">>]

\* time.duration_since(UNIX_EPOCH).map_err(io::Error::other)?.as_secs_f64()
time_f64_clamped(time) == [ok |-> TRUE, val |-> IF time < 0 THEN 0 ELSE time]

time_f64(time) == IF time < 0 THEN [ok |-> FALSE, val |-> 0] ELSE [ok |-> TRUE, val |-> time]

\* the result of a call: the sink after it, Ok or the error, the record data handed over
write_record(w, cap, record) ==
    LET bytes == TfRecord_bytes(record)
    IN  [sink   |-> SinkAppend(w, cap, bytes),
         result |-> IF SinkAccepts(w, cap, bytes) THEN "ok" ELSE "io_err",
         data   |-> record.data]

write_event_unframed(w, cap, event) ==
    LET data == Encode_Event(event)
    IN  [sink   |-> SinkAppend(w, cap, data),
         result |-> IF SinkAccepts(w, cap, data) THEN "ok" ELSE "io_err",
         data   |-> data]

write_event(w, cap, event) == write_record(w, cap, TfRecord_from_data(Encode_Event(event)))

\* the event write_file_version builds from the wall time it read
file_version_event_unmarked(wall_time) ==
    [Event_default EXCEPT !.wall_time = wall_time,
                          !.source_metadata = <<"Some", WRITER>>]

file_version_event(wall_time) ==
    [Event_default EXCEPT !.wall_time = wall_time,
                          !.what = <<"FileVersion", FILE_VERSION>>,
                          !.source_metadata = <<"Some", WRITER>>]

write_file_version(w, cap, now) ==
    IF ~time_f64(now).ok
    THEN [sink |-> w, result |-> "clock_err", data |-> <<>>]
    ELSE write_event(w, cap, file_version_event(time_f64(now).val))

\* the event write_summary builds
summary_event(wall_time, step, summ) ==
    [Event_default EXCEPT !.wall_time = wall_time, !.step = step,
                          !.what = <<"Summary", summ>>]

write_summary(w, cap, wall_time, step, summ) ==
    IF ~time_f64(wall_time).ok
    THEN [sink |-> w, result |-> "clock_err", data |-> <<>>]
    ELSE write_event(w, cap, summary_event(time_f64(wall_time).val, step, summ))

(***************************************************************************)
(* The SummaryBuilder (src/src/summary.rs): a pb::Summary is the sequence  *)
(* of its values, a value is [tag, value, metadata].                       *)
(***************************************************************************)
SummaryBuilder_new == <<>>

SummaryBuilder_build(summ) == summ

\* a value of a tag already present takes the place of the earlier one
SummaryBuilder_value_merged(summ, value) ==
    IF \E i \in 1..Len(summ) : summ[i].tag = value.tag
    THEN [i \in 1..Len(summ) |-> IF summ[i].tag = value.tag THEN value ELSE summ[i]]
    ELSE Append(summ, value)

SummaryBuilder_value(summ, value) == Append(summ, value)

build_value(summ, tag, inner, meta) ==
    SummaryBuilder_value(summ, [tag |-> tag, value |-> inner, metadata |-> meta])

SummaryBuilder_scalar(summ, tag, scalar) ==
    build_value(summ, tag, <<"SimpleValue", scalar>>, <<"None">>)

(***************************************************************************)
(* Floating point.  An f64 is modelled as a binary floating-point number   *)
(* of the same kind with a short significand and a small exponent range:   *)
(* a finite value is a whole number of quanta (the smallest subnormal),    *)
(* representable when it is m * 2^k with m < 2^Precision and k <= ExpRange;*)
(* 1.0 is 2^FracBits quanta.  Every operation computes the exact result    *)
(* and rounds it to the nearest representable value, ties to even, and to  *)
(* an infinity beyond the largest finite value.  Signed zeros and the sign *)
(* of a NaN are not modelled.                                              *)
(***************************************************************************)
\* bits of the significand
Precision == 3

\* binades above the first
ExpRange == 5

\* 1.0 is 2^FracBits quanta
FracBits == 2

\* the largest finite magnitude, in quanta
MaxMag == (Pow2(Precision) - 1) * Pow2(ExpRange)

\* 1.0 in quanta
One == Pow2(FracBits)

Fin(n) == [k |-> "fin", v |-> n]

PosInf == [k |-> "inf", v |-> 1]

NegInf == [k |-> "inf", v |-> -1]

NaN == [k |-> "nan", v |-> 0]

Abs(n) == IF n < 0 THEN -n ELSE n

Sgn(n) == IF n < 0 THEN -1 ELSE IF n > 0 THEN 1 ELSE 0

\* the magnitude num/den (num >= 0, den > 0) rounded to the nearest m * 2^k,
\* m < 2^Precision, ties to even
RoundMag(num, den) ==
    LET a == num \div den
        k == IF a < Pow2(Precision) THEN 0 ELSE Log2(a) - Precision + 1
        d == den * Pow2(k)
        q == num \div d
        r == num % d
        m == IF 2 * r > d \/ (2 * r = d /\ q % 2 = 1) THEN q + 1 ELSE q
    IN  m * Pow2(k)

\* the float nearest to num/den quanta (den > 0)
Round(num, den) ==
    LET mag == RoundMag(Abs(num), den)
    IN  IF mag > MaxMag THEN (IF num < 0 THEN NegInf ELSE PosInf)
        ELSE Fin(Sgn(num) * mag)

\* num/den quanta is a float as it stands
Representable(num, den) == Round(num, den).k = "fin" /\ Round(num, den).v * den = num

\* usize as f64
FromUsize(n) == Round(n * One, 1)

FAdd(a, b) ==
    IF a.k = "nan" \/ b.k = "nan" THEN NaN
    ELSE IF a.k = "inf" THEN (IF b.k = "inf" /\ b.v # a.v THEN NaN ELSE a)
    ELSE IF b.k = "inf" THEN b
    ELSE Round(a.v + b.v, 1)

FNeg(a) == IF a.k = "nan" THEN NaN ELSE [a EXCEPT !.v = -a.v]

FSub(a, b) == FAdd(a, FNeg(b))

FMul(a, b) ==
    IF a.k = "nan" \/ b.k = "nan" THEN NaN
    ELSE IF a.k = "inf" \/ b.k = "inf"
    THEN (IF a.v = 0 \/ b.v = 0 THEN NaN
          ELSE IF Sgn(a.v) * Sgn(b.v) < 0 THEN NegInf ELSE PosInf)
    ELSE Round(a.v * b.v, One)

FDiv(a, b) ==
    IF a.k = "nan" \/ b.k = "nan" THEN NaN
    ELSE IF a.k = "inf"
    THEN (IF b.k = "inf" THEN NaN
          ELSE IF Sgn(a.v) * (IF b.v < 0 THEN -1 ELSE 1) < 0 THEN NegInf ELSE PosInf)
    ELSE IF b.k = "inf" THEN Fin(0)
    ELSE IF b.v = 0
    THEN (IF a.v = 0 THEN NaN ELSE IF a.v < 0 THEN NegInf ELSE PosInf)
    ELSE Round(Sgn(b.v) * a.v * One, Abs(b.v))

\* f64::floor
FFloor(a) == IF a.k = "fin" THEN Fin((a.v \div One) * One) ELSE a

\* a < b as f64 compares: false when either is a NaN
FLess(a, b) ==
    /\ a.k # "nan" /\ b.k # "nan"
    /\ IF a.k = "inf" THEN a.v < 0 /\ b # NegInf
       ELSE IF b.k = "inf" THEN b.v > 0
       ELSE a.v < b.v

\* f64::clamp (min <= max): a NaN stays a NaN
FClamp(x, lo, hi) == IF FLess(x, lo) THEN lo ELSE IF FLess(hi, x) THEN hi ELSE x

\* usize::MAX, beyond every index of the model
UsizeMax == MaxMag + 1

\* `x as usize`: truncates, saturates, and takes a NaN to 0
AsUsize_nan_max(x) ==
    IF x.k = "nan" THEN UsizeMax
    ELSE IF x.k = "inf" THEN (IF x.v < 0 THEN 0 ELSE UsizeMax)
    ELSE IF x.v < 0 THEN 0 ELSE x.v \div One

AsUsize(x) ==
    IF x.k = "nan" THEN 0
    ELSE IF x.k = "inf" THEN (IF x.v < 0 THEN 0 ELSE UsizeMax)
    ELSE IF x.v < 0 THEN 0 ELSE x.v \div One

\* f64::total_cmp: -inf, the finite values in order, +inf, NaN
TotalRank(a) ==
    IF a.k = "nan" THEN 3 ELSE IF a.k = "fin" THEN 1 ELSE IF a.v < 0 THEN 0 ELSE 2

TotalLess(a, b) ==
    \/ TotalRank(a) < TotalRank(b)
    \/ TotalRank(a) = TotalRank(b) /\ a.k = "fin" /\ a.v < b.v

\* values.iter().min_by(f64::total_cmp) and max_by of a non-empty slice
RECURSIVE IterMin(_)
IterMin(values) ==
    IF Len(values) = 1 THEN values[1]
    ELSE LET m == IterMin(Tail(values))
         IN  IF TotalLess(m, Head(values)) THEN m ELSE Head(values)

RECURSIVE IterMax(_)
IterMax(values) ==
    IF Len(values) = 1 THEN values[1]
    ELSE LET m == IterMax(Tail(values))
         IN  IF TotalLess(m, Head(values)) THEN Head(values) ELSE m

(***************************************************************************)
(* SummaryBuilder::histogram.                                              *)
(***************************************************************************)
HistogramProto_default ==
    [min |-> Fin(0), max |-> Fin(0), bucket_limit |-> <<>>, bucket |-> <<>>]

\* the index of the bucket a sample is counted in
BucketIndex_unclamped(z, min, bucket_width, bins) ==
    AsUsize(FFloor(FDiv(FSub(z, min), bucket_width)))

BucketIndex_right_closed(z, min, bucket_width, bins) ==
    LET q   == FDiv(FSub(z, min), bucket_width)
        idx == IF q.k = "fin" /\ q.v % One = 0 THEN FSub(q, Fin(One)) ELSE FFloor(q)
    IN  AsUsize(FClamp(idx, Fin(0), FromUsize(bins - 1)))

BucketIndex(z, min, bucket_width, bins) ==
    AsUsize(FClamp(FFloor(FDiv(FSub(z, min), bucket_width)),
                   Fin(0), FromUsize(bins - 1)))

\* the loop over the samples: the counts, and whether an index was out of bounds
RECURSIVE CountSamples(_, _, _, _, _)
CountSamples(values, bucket, min, bucket_width, bins) ==
    IF values = <<>> THEN [panic |-> FALSE, bucket |-> bucket]
    ELSE LET idx == BucketIndex(Head(values), min, bucket_width, bins)
         IN  IF idx >= Len(bucket) THEN [panic |-> TRUE, bucket |-> bucket]
             ELSE CountSamples(Tail(values),
                               [bucket EXCEPT ![idx + 1] = FAdd(@, Fin(One))],
                               min, bucket_width, bins)

\* the guarded block: the histogram of a non-empty slice in bins > 0 buckets
Bucketize(bins, values) ==
    LET min == IterMin(values)
        max == IterMax(values)
        bucket_width == FDiv(FSub(max, min), FromUsize(bins))
        counted == CountSamples(values, [i \in 1..bins |-> Fin(0)],
                                min, bucket_width, bins)
    IN  [panic |-> counted.panic,
         histo |-> [min          |-> min,
                    max          |-> max,
                    bucket_limit |-> [i \in 1..bins |->
                                         FAdd(min, FMul(FromUsize(i), bucket_width))],
                    bucket       |-> counted.bucket]]

\* !values.is_empty() && bins > 0
HistogramGuard_either(bins, values) == values # <<>> \/ bins > 0

HistogramGuard(bins, values) == values # <<>> /\ bins > 0

\* the HistogramProto histogram builds; unwrap of the minimum of no values, and an
\* index out of bounds, are panics
HistogramProto_of(bins, values) ==
    IF HistogramGuard(bins, values)
    THEN (IF values = <<>> THEN [panic |-> TRUE, histo |-> HistogramProto_default]
          ELSE Bucketize(bins, values))
    ELSE [panic |-> FALSE, histo |-> HistogramProto_default]

\* the builder after histogram(tag, bins, values), when it does not panic
SummaryBuilder_histogram(summ, tag, bins, values) ==
    build_value(summ, tag, <<"Histo", HistogramProto_of(bins, values).histo>>, <<"None">>)

(***************************************************************************)
(* The Writer's calls as actions.                                          *)
(***************************************************************************)
\* the wall times a caller passes and the clock shows: before and after the epoch
Times == {-1, 3}

Steps == {300, -1}

\* the summaries a caller passes to write_summary
Summaries ==
    {SummaryBuilder_build(SummaryBuilder_new),
     SummaryBuilder_build(SummaryBuilder_scalar(SummaryBuilder_new, <<97>>, 1))}

\* the events a caller passes to write_event itself
Events == {Event_default}

\* the raw records a caller passes to write_record: one whose checksums are wrong
RawRecords ==
    {[length |-> 1, length_crc |-> <<0, 0, 0, 0>>, data |-> <<7>>,
      data_crc |-> <<0, 0, 0, 0>>]}

\* sinks: one that fills within the first records, one that never does
SinkCaps == {90, 1000000}

WriterInit ==
    /\ sink = <<>>
    /\ sinkCap \in SinkCaps
    /\ written = <<>>
    /\ ioFailed = FALSE
    /\ ncalls = 0
    /\ last = [op |-> "wrap", result |-> "ok", before |-> <<>>, wall_time |-> 0]

\* no Writer in this run
WriterIdle ==
    /\ sink = <<>>
    /\ sinkCap = 0
    /\ written = <<>>
    /\ ioFailed = FALSE
    /\ ncalls = 0
    /\ last = [op |-> "none", result |-> "ok", before |-> <<>>, wall_time |-> 0]

\* no builder call has returned and build() was not called
BuilderFresh ==
    /\ bcalls = <<>>
    /\ built = <<"None">>

\* no SummaryBuilder call in this run
BuilderIdle ==
    /\ summary = <<>>
    /\ bargs = [op |-> "none"]
    /\ bpc = "idle"
    /\ build = [debug |-> FALSE, debug_assertions |-> FALSE]
    /\ BuilderFresh

\* no event file is named in this run
UidIdle ==
    /\ GLOBAL_UID = 0
    /\ pc = <<>>
    /\ local = <<>>
    /\ names = <<>>

Call(op, t, r) ==
    /\ ncalls < MaxCalls
    /\ sink' = r.sink
    /\ written' = IF r.result = "ok"
                  THEN Append(written, [op |-> op, data |-> r.data])
                  ELSE written
    /\ ioFailed' = (ioFailed \/ r.result = "io_err")
    /\ ncalls' = ncalls + 1
    /\ last' = [op |-> op, result |-> r.result, before |-> sink, wall_time |-> t]
    /\ UNCHANGED <<sinkCap, bvars, uvars>>

WriteFileVersion ==
    \E now \in Times :
        Call("write_file_version", now, write_file_version(sink, sinkCap, now))

WriteSummary ==
    \E wall_time \in Times, step \in Steps, summ \in Summaries :
        Call("write_summary", wall_time,
             write_summary(sink, sinkCap, wall_time, step, summ))

WriteEvent ==
    \E event \in Events : Call("write_event", 0, write_event(sink, sinkCap, event))

WriteRecord ==
    \E record \in RawRecords :
        Call("write_record", 0, write_record(sink, sinkCap, record))

Next == WriteFileVersion \/ WriteSummary \/ WriteEvent \/ WriteRecord

Init == WriterInit /\ BuilderIdle /\ UidIdle

Spec == Init /\ [][Next]_vars

(***************************************************************************)
(* One histogram call on a builder, over all bounded inputs.               *)
(***************************************************************************)
\* all sequences over S of length at most n
SeqsUpTo(S, n) == UNION {[1..k -> S] : k \in 0..n}

\* the samples: the extremes, zero, the smallest subnormal, 1.0, 2.0, and the
\* values that are not finite
SampleSet ==
    {Fin(-MaxMag), Fin(0), Fin(1), Fin(One), Fin(2 * One), Fin(MaxMag), PosInf, NaN}

\* histogram([1, 2, 3, 4], bins = 2) and histogram([5], bins = 1)
HistogramExamples ==
    {[bins |-> 2, values |-> <<Fin(One), Fin(2 * One), Fin(3 * One), Fin(4 * One)>>],
     [bins |-> 1, values |-> <<Fin(5 * One)>>]}

HistogramInputs ==
    [bins : 0..MaxBins, values : SeqsUpTo(SampleSet, MaxSamples)] \cup HistogramExamples

\* the builder before the call: new, or holding a value of the same tag
PriorSummaries ==
    {SummaryBuilder_new, SummaryBuilder_scalar(SummaryBuilder_new, <<104>>, 1)}

HistogramInit ==
    /\ summary \in PriorSummaries
    /\ \E in \in HistogramInputs :
           bargs = [op |-> "histogram", tag |-> <<104>>, bins |-> in.bins,
                    values |-> in.values, before |-> summary]
    /\ bpc = "ready"
    /\ build = [debug |-> FALSE, debug_assertions |-> FALSE]
    /\ BuilderFresh
    /\ WriterIdle
    /\ UidIdle

Histogram ==
    /\ bpc = "ready"
    /\ bargs.op = "histogram"
    /\ IF HistogramProto_of(bargs.bins, bargs.values).panic
       THEN bpc' = "panicked" /\ UNCHANGED summary
       ELSE /\ bpc' = "done"
            /\ summary' = SummaryBuilder_histogram(summary, bargs.tag, bargs.bins,
                                                   bargs.values)
    /\ UNCHANGED <<bargs, build, bcalls, built, wvars, uvars>>

HistogramNext == Histogram

SpecHistogram == HistogramInit /\ [][HistogramNext]_vars

(***************************************************************************)
(* SummaryBuilder::text and text_ndarray.  usize and i64 are WordBits      *)
(* wide: a usize is 0 .. 2^WordBits - 1, an i64 is -2^(WordBits-1) ..      *)
(* 2^(WordBits-1) - 1.                                                     *)
(***************************************************************************)
\* d as i64
UsizeAsI64(d) == IF d >= Pow2(WordBits - 1) THEN d - Pow2(WordBits) ELSE d

\* x.checked_mul(y): <<"Some", x * y>>, or <<"None">> on overflow
CheckedMul(x, y) ==
    IF x * y >= Pow2(WordBits - 1) \/ x * y < -Pow2(WordBits - 1)
    THEN <<"None">>
    ELSE <<"Some", x * y>>

\* shape.iter().map(|&d| d as i64).try_fold(1i64, |x, y| x.checked_mul(y))
RECURSIVE DimProduct(_, _)
DimProduct(acc, shape) ==
    IF shape = <<>> THEN <<"Some", acc>>
    ELSE LET next == CheckedMul(acc, UsizeAsI64(Head(shape)))
         IN  IF next[1] = "None" THEN next ELSE DimProduct(next[2], Tail(shape))

\* the dimension check panics
ShapeCheckPanics(string_val, shape) ==
    LET dim_product == DimProduct(1, shape)
    IN  ~(dim_product[1] = "Some" /\ dim_product[2] = Len(string_val))

\* "text"
TEXT_PLUGIN_NAME == <<116, 101, 120, 116>>

\* whether text_ndarray_mono panics, and the builder it returns when it does not;
\* cfg_debug is cfg!(debug)
text_ndarray_mono(summ, tag, string_val, shape, cfg_debug) ==
    [panic |-> cfg_debug /\ ShapeCheckPanics(string_val, shape),
     summ  |-> build_value(summ, tag,
                   <<"Tensor",
                     [tensor_shape |-> [i \in 1..Len(shape) |-> UsizeAsI64(shape[i])],
                      dtype        |-> "DT_STRING",
                      string_val   |-> string_val]>>,
                   <<"Some", [plugin_name |-> TEXT_PLUGIN_NAME, content |-> <<>>]>>)]

SummaryBuilder_text_ndarray(summ, tag, text, shape, cfg_debug) ==
    text_ndarray_mono(summ, tag, [i \in 1..Len(text) |-> text[i]], shape, cfg_debug)

SummaryBuilder_text(summ, tag, text, cfg_debug) ==
    SummaryBuilder_text_ndarray(summ, tag, <<text>>, <<>>, cfg_debug)

\* the strings: "a" and "bc"
TextStrings == {<<97>>, <<98, 99>>}

\* the dimensions: small ones, the least that wraps to a negative i64, usize::MAX
Dims == {0, 1, 2, 3, Pow2(WordBits - 1), Pow2(WordBits) - 1}

\* a build sets cfg(debug) only when it is given --cfg debug; cfg(debug_assertions)
\* is set in a debug build
Builds == [debug : BOOLEAN, debug_assertions : BOOLEAN]

TextInit ==
    /\ summary \in PriorSummaries
    /\ \/ \E text \in SeqsUpTo(TextStrings, MaxTexts), shape \in SeqsUpTo(Dims, MaxRank) :
              bargs = [op |-> "text_ndarray", tag |-> <<104>>, text |-> text,
                       shape |-> shape, before |-> summary]
       \/ \E text \in TextStrings :
              bargs = [op |-> "text", tag |-> <<104>>, text |-> <<text>>,
                       shape |-> <<>>, before |-> summary]
    /\ bpc = "ready"
    /\ build \in Builds
    /\ BuilderFresh
    /\ WriterIdle
    /\ UidIdle

\* the builder call returns r.summ or panics
BuilderReturns(r) ==
    /\ IF r.panic
       THEN bpc' = "panicked" /\ UNCHANGED summary
       ELSE bpc' = "done" /\ summary' = r.summ
    /\ UNCHANGED <<bargs, build, bcalls, built, wvars, uvars>>

TextNdarray ==
    /\ bpc = "ready"
    /\ bargs.op = "text_ndarray"
    /\ BuilderReturns(SummaryBuilder_text_ndarray(summary, bargs.tag, bargs.text,
                                                  bargs.shape, build.debug))

Text ==
    /\ bpc = "ready"
    /\ bargs.op = "text"
    /\ BuilderReturns(SummaryBuilder_text(summary, bargs.tag, bargs.text[1], build.debug))

TextNext == TextNdarray \/ Text

SpecText == TextInit /\ [][TextNext]_vars

(***************************************************************************)
(* A SummaryBuilder from new() to build(): calls are chained, each taking  *)
(* the builder the one before returned.                                    *)
(***************************************************************************)
\* the tags: "h" and "t"
BuilderTags == {<<104>>, <<116>>}

BuilderScalars == {1}

\* histogram([1, 2, 3, 4], bins = 2) and histogram([], bins = 0)
BuilderHistograms ==
    {[bins |-> 2, values |-> <<Fin(One), Fin(2 * One), Fin(3 * One), Fin(4 * One)>>],
     [bins |-> 0, values |-> <<>>]}

\* text_ndarray(["a", "bc"], [2]) and the mismatched text_ndarray(["a"], [3])
BuilderNdarrays ==
    {[text |-> <<<<97>>, <<98, 99>>>>, shape |-> <<2>>],
     [text |-> <<<<97>>>>, shape |-> <<3>>]}

\* values handed to value(): one of tag "h" holding nothing, one of the empty tag
BuilderValues ==
    {[tag |-> <<104>>, value |-> <<"None">>, metadata |-> <<"None">>],
     [tag |-> <<>>, value |-> <<"SimpleValue", 1>>, metadata |-> <<"None">>]}

BuilderInit ==
    /\ summary = SummaryBuilder_new
    /\ bargs = [op |-> "new", tag |-> <<>>, before |-> <<>>]
    /\ bpc = "ready"
    /\ build \in Builds
    /\ BuilderFresh
    /\ WriterIdle
    /\ UidIdle

\* one call on the builder at hand: it returns r.summ, or it panics
BuilderCall(op, tag, arg, r) ==
    /\ bpc \in {"ready", "done"}
    /\ Len(bcalls) < MaxBuilderCalls
    /\ bargs' = [op |-> op, tag |-> tag, before |-> summary]
    /\ IF r.panic
       THEN bpc' = "panicked" /\ UNCHANGED <<summary, bcalls>>
       ELSE /\ bpc' = "done"
            /\ summary' = r.summ
            /\ bcalls' = Append(bcalls, [op |-> op, tag |-> tag, arg |-> arg])
    /\ UNCHANGED <<build, built, wvars, uvars>>

BuilderScalar ==
    \E tag \in BuilderTags, scalar \in BuilderScalars :
        BuilderCall("scalar", tag, scalar,
                    [panic |-> FALSE, summ |-> SummaryBuilder_scalar(summary, tag, scalar)])

BuilderHistogram ==
    \E tag \in BuilderTags, in \in BuilderHistograms :
        BuilderCall("histogram", tag, in,
                    [panic |-> HistogramProto_of(in.bins, in.values).panic,
                     summ  |-> SummaryBuilder_histogram(summary, tag, in.bins, in.values)])

BuilderText ==
    \E tag \in BuilderTags, text \in TextStrings :
        BuilderCall("text", tag, text, SummaryBuilder_text(summary, tag, text, build.debug))

BuilderTextNdarray ==
    \E tag \in BuilderTags, in \in BuilderNdarrays :
        BuilderCall("text_ndarray", tag, in,
                    SummaryBuilder_text_ndarray(summary, tag, in.text, in.shape, build.debug))

BuilderValue ==
    \E value \in BuilderValues :
        BuilderCall("value", value.tag, value,
                    [panic |-> FALSE, summ |-> SummaryBuilder_value(summary, value)])

\* build() consumes the builder
BuilderBuild ==
    /\ bpc \in {"ready", "done"}
    /\ built' = <<"Some", SummaryBuilder_build(summary)>>
    /\ bpc' = "built"
    /\ UNCHANGED <<summary, bargs, build, bcalls, wvars, uvars>>

BuilderNext ==
    \/ BuilderScalar
    \/ BuilderHistogram
    \/ BuilderText
    \/ BuilderTextNdarray
    \/ BuilderValue
    \/ BuilderBuild

SpecBuilder == BuilderInit /\ [][BuilderNext]_vars

(***************************************************************************)
(* event_file_name and GLOBAL_UID: threads of one process name event files.*)
(***************************************************************************)
Threads == {"t1", "t2"}

\* "events.out.tfevents."
NamePrefix ==
    <<101, 118, 101, 110, 116, 115, 46, 111, 117, 116, 46, 116, 102, 101, 118, 101,
      110, 116, 115, 46>>

\* the decimal digits of n >= 0, as characters
RECURSIVE Decimal(_)
Decimal(n) == IF n < 10 THEN <<48 + n>> ELSE Decimal(n \div 10) \o <<48 + (n % 10)>>

\* {:010}: padded with zeros to ten characters
RECURSIVE ZeroPad10(_)
ZeroPad10(digits) == IF Len(digits) >= 10 THEN digits ELSE ZeroPad10(<<48>> \o digits)

\* "events.out.tfevents.{now:010}." hostname ".{pid}.{uid}"
FormatName(now, hostname, pid, uid) ==
    NamePrefix \o ZeroPad10(Decimal(now)) \o <<46>> \o hostname \o <<46>>
    \o Decimal(pid) \o <<46>> \o Decimal(uid)

\* SystemTime::now().duration_since(UNIX_EPOCH).map_or(0, |dt| dt.as_secs())
NowSecs(time) == IF time < 0 THEN 0 ELSE time

\* GLOBAL_UID.fetch_add(val, Relaxed): one atomic step; prev is returned.  The
\* counter is 64 bits wide and wraps only after 2^64 calls, beyond every run.
fetch_add_lost(counter, val) == [prev |-> counter, next |-> counter]

fetch_add(counter, val) == [prev |-> counter, next |-> counter + val]

\* the host's names: "h" and "h.7"; hostname::get() failing gives the empty name
Hostnames == {<<>>, <<104>>, <<104, 46, 55>>}

\* std::process::id()
ProcessId == 7

UidInit ==
    /\ GLOBAL_UID = 0
    /\ pc = [t \in Threads |-> "idle"]
    /\ local \in [Threads -> [now : {NowSecs(-1), NowSecs(1)}, hostname : {<<104>>},
                              pid : {ProcessId}, uid : {0}, made : {0}]]
    /\ names = <<>>
    /\ WriterIdle
    /\ BuilderIdle

\* lines 28-32: the clock, the hostname and the process id are read
ReadEnvironment(t) ==
    /\ pc[t] = "idle"
    /\ local[t].made < CallsPerThread
    /\ \E hostname \in Hostnames :
           local' = [local EXCEPT ![t].hostname = hostname]
    /\ pc' = [pc EXCEPT ![t] = "fetch"]
    /\ UNCHANGED <<GLOBAL_UID, names, wvars, bvars>>

\* line 33
FetchAdd(t) ==
    /\ pc[t] = "fetch"
    /\ local' = [local EXCEPT ![t].uid = fetch_add(GLOBAL_UID, 1).prev]
    /\ GLOBAL_UID' = fetch_add(GLOBAL_UID, 1).next
    /\ pc' = [pc EXCEPT ![t] = "format"]
    /\ UNCHANGED <<names, wvars, bvars>>

\* lines 35-38
ReturnName(t) ==
    /\ pc[t] = "format"
    /\ names' = Append(names, [uid  |-> local[t].uid,
                               name |-> FormatName(local[t].now, local[t].hostname,
                                                   local[t].pid, local[t].uid)])
    /\ local' = [local EXCEPT ![t].made = @ + 1]
    /\ pc' = [pc EXCEPT ![t] = "idle"]
    /\ UNCHANGED <<GLOBAL_UID, wvars, bvars>>

UidNext == \E t \in Threads : ReadEnvironment(t) \/ FetchAdd(t) \/ ReturnName(t)

SpecUid == UidInit /\ [][UidNext]_vars

(***************************************************************************)
(* Claims about the Writer, checked under Spec.                            *)
(***************************************************************************)
\* every successful call so far was write_file_version, write_summary or write_event
OnlyEventCalls ==
    \A i \in 1..Len(written) :
        written[i].op \in {"write_file_version", "write_summary", "write_event"}

\* the record data handed over by the successful calls, in call order
WrittenData == [i \in 1..Len(written) |-> written[i].data]

\* an encoded Event whose file_version field is "brain.Event:2"
CarriesMarker(data) ==
    LET fields == DecodeFields(data, 1)
    IN  \E i \in 1..Len(fields) : fields[i] = <<3, 2, FILE_VERSION>>

\* C1: after successful write_file_version / write_summary / write_event calls the
\* sink holds exactly one framed record per call, in call order; a successful call
\* appends one record at the end and leaves the earlier bytes as they were.
C1_OneRecordPerCall ==
    (~ioFailed /\ OnlyEventCalls) =>
        /\ ReadRecords(sink, 1) = WrittenData
        /\ (last.op # "wrap" /\ last.result = "ok") =>
               sink = last.before
                      \o TfRecord_bytes(TfRecord_from_data(written[Len(written)].data))

C1_Witness ==
    /\ ~ioFailed
    /\ Len(written) = 3
    /\ written[1].op = "write_file_version"
    /\ written[2].op = "write_summary"
    /\ written[3].op = "write_event"
    /\ Len(ReadRecords(sink, 1)) = 3

\* C2 as stated: the first record of every stream is the version-marker envelope;
\* no summary record is appended before the file-version record, whatever the
\* order of the caller's write_file_version and write_summary calls.
C2_FirstRecordIsMarker ==
    (/\ ~ioFailed
     /\ written # <<>>
     /\ \A i \in 1..Len(written) :
            written[i].op \in {"write_file_version", "write_summary"})
        => CarriesMarker(ReadRecords(sink, 1)[1])

\* C2 as amended: every record write_file_version appends carries "brain.Event:2",
\* and no record write_summary appends does; the records stand in call order, so
\* the first record is the version marker when the caller's first successful call
\* is write_file_version, and a summary record when it is write_summary.
C2_MarkerWhereCalled ==
    (~ioFailed /\ OnlyEventCalls) =>
        LET records == ReadRecords(sink, 1)
        IN  \A i \in 1..Len(written) :
                /\ written[i].op = "write_file_version" => CarriesMarker(records[i])
                /\ written[i].op = "write_summary" => ~CarriesMarker(records[i])

C2_Witness ==
    /\ ~ioFailed
    /\ Len(written) = 2
    /\ written[1].op = "write_summary"
    /\ written[2].op = "write_file_version"
    /\ ~CarriesMarker(ReadRecords(sink, 1)[1])
    /\ CarriesMarker(ReadRecords(sink, 1)[2])

\* C3: write_summary with a wall time before the Unix epoch returns an error and
\* leaves the sink exactly as it was before the call.
C3_EpochError ==
    (last.op = "write_summary" /\ last.wall_time < 0) =>
        /\ last.result = "clock_err"
        /\ sink = last.before

C3_Witness ==
    /\ last.op = "write_summary"
    /\ last.wall_time < 0
    /\ last.result = "clock_err"
    /\ last.before # <<>>
    /\ sink = last.before

(***************************************************************************)
(* Claims about SummaryBuilder::histogram, checked under SpecHistogram.    *)
(***************************************************************************)
\* the histogram call has returned or panicked
HistogramCalled == bargs.op = "histogram" /\ bpc # "ready"

\* the HistogramProto of the value the call appended
Histo == summary[Len(summary)].value[2]

\* the call bucketed: a non-empty slice, bins > 0
Bucketed == HistogramCalled /\ bargs.values # <<>> /\ bargs.bins > 0

AllFinite(values) == \A k \in 1..Len(values) : values[k].k = "fin"

\* the number of samples that satisfy P, as a bucket count
CountOf(values, P(_)) == Fin(One * Cardinality({k \in 1..Len(values) : P(values[k])}))

RECURSIVE SumQuanta(_)
SumQuanta(bucket) == IF bucket = <<>> THEN 0 ELSE Head(bucket).v + SumQuanta(Tail(bucket))

\* every f64 operation of the bucketing gave its exact result: nothing was rounded,
\* overflowed or underflowed (finite samples, max > min)
ExactBucketing(bins, values) ==
    LET min == IterMin(values).v
        max == IterMax(values).v
        w   == (max - min) \div bins
    IN  /\ AllFinite(values)
        /\ max > min
        /\ Representable(max - min, 1)
        /\ (max - min) % bins = 0
        /\ Representable(w, 1)
        /\ \A i \in 1..bins : Representable(i * w, 1) /\ Representable(min + i * w, 1)
        /\ \A k \in 1..Len(values) :
               /\ Representable(values[k].v - min, 1)
               /\ Representable((values[k].v - min) * One, w)

\* C4: for a non-empty slice and bins > 0 the histogram has bins counts and bins
\* limits, no index is out of bounds, and the counts add up to the number of samples.
C4_EverySampleCounted ==
    Bucketed =>
        /\ bpc = "done"
        /\ Len(Histo.bucket) = bargs.bins
        /\ Len(Histo.bucket_limit) = bargs.bins
        /\ \A i \in 1..bargs.bins :
               Histo.bucket[i].k = "fin" /\ Histo.bucket[i].v >= 0
                   /\ Histo.bucket[i].v % One = 0
        /\ SumQuanta(Histo.bucket) = One * Len(bargs.values)

C4_Witness ==
    /\ Bucketed
    /\ bpc = "done"
    /\ bargs.bins = 3
    /\ Len(bargs.values) = 3
    /\ Histo.bucket = <<Fin(One), Fin(One), Fin(One)>>

\* C5 as stated: bucket_limit[i] is the inclusive right edge of bucket i: bucket i
\* counts the samples z with bucket_limit[i-1] < z <= bucket_limit[i] (no lower
\* edge for the first bucket).  Stated for the runs whose arithmetic is exact.
C5_RightEdgeInclusive ==
    (Bucketed /\ bpc = "done" /\ ExactBucketing(bargs.bins, bargs.values)) =>
        \A i \in 1..bargs.bins :
            LET InBucket(z) ==
                    /\ z.v <= Histo.bucket_limit[i].v
                    /\ i > 1 => z.v > Histo.bucket_limit[i - 1].v
            IN  Histo.bucket[i] = CountOf(bargs.values, InBucket)

\* C5 as amended: bucket_limit[i] is the right edge of bucket i, exclusive for
\* every bucket but the last: when every f64 operation of the bucketing is exact,
\* bucket i counts the samples z with bucket_limit[i-1] <= z < bucket_limit[i] (no
\* lower edge for the first bucket), and the last bucket also counts the samples
\* equal to bucket_limit[bins-1] = max.
C5_RightEdgeExclusive ==
    (Bucketed /\ bpc = "done" /\ ExactBucketing(bargs.bins, bargs.values)) =>
        /\ Histo.bucket_limit[bargs.bins] = Histo.max
        /\ \A i \in 1..bargs.bins :
               LET InBucket(z) ==
                       /\ i > 1 => z.v >= Histo.bucket_limit[i - 1].v
                       /\ IF i = bargs.bins THEN z.v <= Histo.bucket_limit[i].v
                          ELSE z.v < Histo.bucket_limit[i].v
               IN  Histo.bucket[i] = CountOf(bargs.values, InBucket)

\* a sample exactly equal to an inner bucket_limit[i] is counted in bucket i + 1
C5_Witness ==
    /\ Bucketed
    /\ bpc = "done"
    /\ ExactBucketing(bargs.bins, bargs.values)
    /\ bargs.bins = 2
    /\ bargs.values = <<Fin(0), Fin(One), Fin(2 * One)>>
    /\ Histo.bucket_limit = <<Fin(One), Fin(2 * One)>>
    /\ Histo.bucket = <<Fin(One), Fin(2 * One)>>

\* C6: with finite samples, max > min and bins > 0, every sample equal to the
\* maximum is counted in the last bucket.
C6_MaxInLastBucket ==
    (Bucketed /\ AllFinite(bargs.values)
        /\ TotalLess(IterMin(bargs.values), IterMax(bargs.values))) =>
        /\ bpc = "done"
        /\ LET IsMax(z) == z = IterMax(bargs.values)
           IN  Histo.bucket[bargs.bins].v >= CountOf(bargs.values, IsMax).v

\* C7: when all samples are equal (and finite, so that bucket_width is 0) every
\* sample is counted in bucket 0, every other bucket is empty, every bucket_limit
\* equals min, and the call does not fail.
C7_AllEqual ==
    (Bucketed /\ AllFinite(bargs.values)
        /\ \A k \in 1..Len(bargs.values) : bargs.values[k] = bargs.values[1]) =>
        /\ bpc = "done"
        /\ Histo.min = bargs.values[1]
        /\ Histo.max = bargs.values[1]
        /\ Histo.bucket_limit = [i \in 1..bargs.bins |-> bargs.values[1]]
        /\ Histo.bucket =
               [i \in 1..bargs.bins |->
                   IF i = 1 THEN Fin(One * Len(bargs.values)) ELSE Fin(0)]

C7_Witness ==
    /\ Bucketed
    /\ bpc = "done"
    /\ bargs.bins = 3
    /\ bargs.values = <<Fin(One), Fin(One), Fin(One)>>
    /\ Histo.bucket = <<Fin(3 * One), Fin(0), Fin(0)>>
    /\ Histo.bucket_limit = <<Fin(One), Fin(One), Fin(One)>>

\* C8: with an empty slice, or with bins = 0, the histogram has min = max = 0 and
\* no limits and no counts, and the value is appended under the given tag.
C8_EmptyHistogram ==
    (HistogramCalled /\ (bargs.values = <<>> \/ bargs.bins = 0)) =>
        /\ bpc = "done"
        /\ summary =
               Append(bargs.before,
                      [tag      |-> bargs.tag,
                       value    |-> <<"Histo", [min |-> Fin(0), max |-> Fin(0),
                                                bucket_limit |-> <<>>,
                                                bucket |-> <<>>]>>,
                       metadata |-> <<"None">>])

C8_Witness ==
    /\ HistogramCalled
    /\ bpc = "done"
    /\ bargs.bins = 0
    /\ Len(bargs.values) = 3
    /\ Len(bargs.before) = 1
    /\ Len(summary) = 2
    /\ Histo.bucket = <<>>

(***************************************************************************)
(* The claim about text_ndarray, checked under SpecText.                   *)
(***************************************************************************)
\* the product of the dimensions, as a number
RECURSIVE ShapeProduct(_)
ShapeProduct(shape) == IF shape = <<>> THEN 1 ELSE Head(shape) * ShapeProduct(Tail(shape))

\* C9: in a debug build text_ndarray panics whenever the product of the shape is
\* not the number of strings, so no such value is appended.
C9_DebugBuildPanics ==
    (/\ build.debug_assertions
     /\ bargs.op = "text_ndarray"
     /\ bpc # "ready"
     /\ ShapeProduct(bargs.shape) # Len(bargs.text))
        => (bpc = "panicked" /\ summary = bargs.before)

(***************************************************************************)
(* The claim about GLOBAL_UID, checked under SpecUid.                      *)
(***************************************************************************)
\* the counter values the calls have observed: those returned in a name and those
\* a thread holds between its fetch_add and its return
ObservedUids ==
    {names[i].uid : i \in 1..Len(names)} \cup {local[t].uid : t \in {u \in Threads : pc[u] = "format"}}

ObservedCount == Len(names) + Cardinality({t \in Threads : pc[t] = "format"})

\* C10: no two event_file_name calls observe the same counter value, n calls
\* observe exactly 0 .. n-1, and no two names are equal.
C10_UniqueUids ==
    /\ ObservedUids = 0..(ObservedCount - 1)
    /\ GLOBAL_UID = ObservedCount
    /\ \A i, j \in 1..Len(names) :
           i # j => names[i].uid # names[j].uid /\ names[i].name # names[j].name

\* both threads named files, and a call that took its value later returned earlier
C10_Witness ==
    /\ Len(names) = 4
    /\ \E i, j \in 1..Len(names) : i < j /\ names[i].uid > names[j].uid
    /\ \A i, j \in 1..Len(names) : i # j => names[i].name # names[j].name

(***************************************************************************)
(* The claim about the SummaryBuilder's calls, checked under SpecBuilder.  *)
(***************************************************************************)
\* the value at place i is the one the i-th returned call describes
ValueOfCall(value, call) ==
    /\ value.tag = call.tag
    /\ call.op = "scalar" => value.value = <<"SimpleValue", call.arg>>
    /\ call.op = "histogram" => value.value[1] = "Histo"
    /\ call.op = "text" =>
           /\ value.value[1] = "Tensor"
           /\ value.value[2].string_val = <<call.arg>>
    /\ call.op = "text_ndarray" =>
           /\ value.value[1] = "Tensor"
           /\ value.value[2].string_val = call.arg.text
    /\ call.op = "value" => value = call.arg

\* C11: every builder call that returns appends exactly one value at the end and
\* leaves the earlier values as they were, a tag already present included; n
\* calls give n values, in call order, and build() returns them so.
C11_OneValuePerCall ==
    /\ Len(summary) = Len(bcalls)
    /\ \A i \in 1..Len(summary) : ValueOfCall(summary[i], bcalls[i])
    /\ bpc = "done" =>
           /\ Len(summary) = Len(bargs.before) + 1
           /\ SubSeq(summary, 1, Len(bargs.before)) = bargs.before
    /\ built[1] = "Some" => built[2] = summary

\* three calls of the same tag returned, of three kinds, and build() gave three
\* values
C11_Witness ==
    /\ built[1] = "Some"
    /\ Len(built[2]) = 3
    /\ Len(bcalls) = 3
    /\ \A i \in 1..3 : bcalls[i].tag = <<104>> /\ built[2][i].tag = <<104>>
    /\ bcalls[1].op = "scalar"
    /\ bcalls[2].op = "histogram"
    /\ bcalls[3].op = "text_ndarray"

====
